---- MODULE Spec2Model ----
(***************************************************************************)
(* Model of calc_adj.py: the least-squares fit of influence functions to a *)
(* displacement map (calc_adj) and the interactive driver (main).          *)
(*                                                                         *)
(* Arrays are numpy arrays: a shape and the elements in C order,           *)
(*   [shape |-> <<d1, ..., dn>>, data |-> <<e0, e1, ...>>],                *)
(* indexed from 0 as in the source (element f of the flat order is         *)
(* data[f + 1]).  The influence functions hold integers.  A displacement   *)
(* map holds the values data[i] / den for one positive integer den, so     *)
(* that a value such as -1.5 is an input.  Computed values (coefficients,  *)
(* adjustment) are exact rationals <<num, den>> in lowest terms; NonFinite *)
(* stands for what a division by a zero singular value leaves behind: inf  *)
(* or nan when the computed singular value is exactly 0 (an all-zero M),   *)
(* and otherwise a number that depends on the rounding of the SVD.  No     *)
(* exception is raised in either case.                                     *)
(***************************************************************************)
EXTENDS Integers, Sequences, FiniteSets, TLC

VARIABLES
    ifuncs,    \* the caller's (in main: the global) influence-function bank
    displ,     \* the caller's (global) displacement map
    n_ss,      \* the caller's (global) sub-sampling stride
    clip,      \* the caller's (global) clip: <<>> is None, <<c>> the int c
    coeffs,    \* what the caller bound the three returned values to
    adj,
    M_2d,
    exc,       \* the exception the last call raised: [type, line]
    locals,    \* calc_adj's locals M and d at the end of the last call
    calls,     \* calls made so far
    known,     \* history: the coefficients c / den displ was built from, if any
    defined,   \* the names bound in the module's globals()
    loads,     \* history: how often each loader has run and returned
    file       \* the array stored in the data file load_ifuncs reads

vars == <<ifuncs, displ, n_ss, clip, coeffs, adj, M_2d, exc, locals, calls,
          known, defined, loads, file>>

----------------------------------------------------------------------------
(* Integers and rationals *)

Min(a, b) == IF a < b THEN a ELSE b
Max(a, b) == IF a > b THEN a ELSE b
Abs(a) == IF a < 0 THEN -a ELSE a

RECURSIVE GCD(_, _)
GCD(a, b) == IF b = 0 THEN a ELSE GCD(b, a % b)

\* ceil(a / b) for a >= 0, b > 0
CeilDiv(a, b) == (a + b - 1) \div b

NonFinite == <<0, 0>>

\* num / den in lowest terms with a positive denominator; x / 0 is NonFinite
Rat(num, den) ==
    IF den = 0 THEN NonFinite
    ELSE LET g == GCD(Abs(num), Abs(den))
             s == IF den < 0 THEN -1 ELSE 1
         IN  <<(s * num) \div g, (s * den) \div g>>

RECURSIVE Prod(_)
Prod(s) == IF s = <<>> THEN 1 ELSE Head(s) * Prod(Tail(s))

RECURSIVE SumFirst(_, _)
\* s[1] + ... + s[n]
SumFirst(s, n) == IF n = 0 THEN 0 ELSE s[n] + SumFirst(s, n - 1)

----------------------------------------------------------------------------
(* numpy arrays *)

\* the n elements F(0), ..., F(n - 1), computed once
Tab(n, F(_)) == [f \in 1..n |-> F(f - 1)] \o <<>>

\* F(0) + ... + F(n - 1)
SumTo(n, F(_)) == SumFirst(Tab(n, F), n)

\* F(e), with e computed once however often F uses it: the binding of a
\* local name to a value
With(e, F(_)) == F(e)

Arr(shape, data) == [shape |-> shape, data |-> data]
DArr(shape, data, den) == [shape |-> shape, data |-> data, den |-> den]
Size(a) == Prod(a.shape)

\* a[x, y] of a 2-d array, a[p, q, x, y] of a 4-d array, a[k, x, y] of a 3-d one
At2(a, x, y) == a.data[x * a.shape[2] + y + 1]
At3(a, k, x, y) == a.data[(k * a.shape[2] + x) * a.shape[3] + y + 1]
At4(a, p, q, x, y) ==
    a.data[((p * a.shape[2] + q) * a.shape[3] + x) * a.shape[4] + y + 1]

\* a.transpose() of a 2-d array
Transpose(a) ==
    LET r == a.shape[1]
        c == a.shape[2]
    IN  Arr(<<c, r>>, Tab(c * r, LAMBDA f : At2(a, f % r, f \div r)))

\* Python's slice bound v on an axis of length n
SliceBound(v, n) == IF v < 0 THEN Max(n + v, 0) ELSE Min(v, n)

\* mutant: the slice stops one element early (a[clip:-clip-1])
SliceLenShort(start, stop, n) ==
    Max(SliceBound(stop, n) - SliceBound(start, n) - 1, 0)

\* a[start:stop] on an axis of length n keeps SliceLen elements from SliceLo
SliceLo(start, n) == SliceBound(start, n)
SliceLen(start, stop, n) == Max(SliceBound(stop, n) - SliceBound(start, n), 0)

\* mutant: a -1 beside a zero-length axis is taken as 0 instead of raising
ReshapeShapeLenient(size, newshape) ==
    LET unknown == {i \in DOMAIN newshape : newshape[i] = -1}
        kn == Prod([i \in DOMAIN newshape |->
                      IF newshape[i] = -1 THEN 1 ELSE newshape[i]] \o <<>>)
    IN  IF unknown = {}
        THEN IF kn = size THEN newshape ELSE <<>>
        ELSE IF kn = 0
             THEN [i \in DOMAIN newshape |->
                     IF newshape[i] = -1 THEN 0 ELSE newshape[i]] \o <<>>
             ELSE IF size % kn # 0 THEN <<>>
             ELSE [i \in DOMAIN newshape |->
                     IF newshape[i] = -1 THEN size \div kn ELSE newshape[i]] \o <<>>

\* The shape a.reshape(newshape) gives an array of `size` elements, where one
\* entry of newshape may be -1 (inferred); <<>> when numpy raises ValueError:
\* the sizes differ, or the -1 cannot be inferred (the known entries multiply
\* to 0 or do not divide the size).
ReshapeShape(size, newshape) ==
    LET unknown == {i \in DOMAIN newshape : newshape[i] = -1}
        kn == Prod([i \in DOMAIN newshape |->
                      IF newshape[i] = -1 THEN 1 ELSE newshape[i]] \o <<>>)
    IN  IF unknown = {}
        THEN IF kn = size THEN newshape ELSE <<>>
        ELSE IF kn = 0 \/ size % kn # 0 THEN <<>>
             ELSE [i \in DOMAIN newshape |->
                     IF newshape[i] = -1 THEN size \div kn ELSE newshape[i]] \o <<>>

\* a.reshape(newshape) where it does not raise: the elements keep their C order
Reshape(a, newshape) == Arr(ReshapeShape(Size(a), newshape), a.data)

\* np.mgrid[0:n_ax:step, 0:n_az:step]: the two index arrays, each of shape
\* (ceil(n_ax / step), ceil(n_az / step))
Mgrid(n_ax, n_az, step) ==
    LET ni == CeilDiv(n_ax, step)
        nj == CeilDiv(n_az, step)
    IN  [i_ss |-> Arr(<<ni, nj>>, Tab(ni * nj, LAMBDA f : (f \div nj) * step)),
         j_ss |-> Arr(<<ni, nj>>, Tab(ni * nj, LAMBDA f : (f % nj) * step))]

\* mutant: a[:, j_ss, i_ss], the two index arrays exchanged
Take3Swapped(a, i_ss, j_ss) ==
    LET ni == i_ss.shape[1]
        nj == i_ss.shape[2]
    IN  Arr(<<a.shape[1], ni, nj>>,
            Tab(a.shape[1] * ni * nj,
                LAMBDA f : At3(a, f \div (ni * nj),
                               j_ss.data[(f % (ni * nj)) + 1],
                               i_ss.data[(f % (ni * nj)) + 1])))

\* a[:, i_ss, j_ss] of a 3-d array: shape (a.shape[0],) + i_ss.shape
Take3(a, i_ss, j_ss) ==
    LET ni == i_ss.shape[1]
        nj == i_ss.shape[2]
    IN  Arr(<<a.shape[1], ni, nj>>,
            Tab(a.shape[1] * ni * nj,
                LAMBDA f : At3(a, f \div (ni * nj),
                               i_ss.data[(f % (ni * nj)) + 1],
                               j_ss.data[(f % (ni * nj)) + 1])))

\* a[i_ss, j_ss] of a 2-d array raises IndexError when an index is out of range
Take2Raises(a, i_ss, j_ss) ==
    \E f \in DOMAIN i_ss.data :
        i_ss.data[f] >= a.shape[1] \/ j_ss.data[f] >= a.shape[2]

\* mutant: a[j_ss, i_ss], the two index arrays exchanged
Take2Swapped(a, i_ss, j_ss) ==
    DArr(i_ss.shape,
         Tab(Len(i_ss.data), LAMBDA f : At2(a, j_ss.data[f + 1], i_ss.data[f + 1])),
         a.den)

Take2(a, i_ss, j_ss) ==
    DArr(i_ss.shape,
         Tab(Len(i_ss.data), LAMBDA f : At2(a, i_ss.data[f + 1], j_ss.data[f + 1])),
         a.den)

----------------------------------------------------------------------------
(* calc_adj *)

None == <<>>

\* mutant: the test `if clip is not None`, which takes 0 as a clip
TruthyNotNone(c) == c # None

\* Python's truth value of clip: None and 0 are false
Truthy(c) == c # None /\ c[1] # 0

\* displ[clip:-clip, clip:-clip]
ClipDispl(a, c) ==
    LET lo0 == SliceLo(c, a.shape[1])
        lo1 == SliceLo(c, a.shape[2])
        nx == SliceLen(c, -c, a.shape[1])
        ny == SliceLen(c, -c, a.shape[2])
    IN  DArr(<<nx, ny>>,
             Tab(nx * ny, LAMBDA f : At2(a, lo0 + (f \div ny), lo1 + (f % ny))),
             a.den)

\* mutant: line 23 left out, the bank is not clipped
ClipIfuncsSkipped(a, c) == a

\* ifuncs[:, :, clip:-clip, clip:-clip]
ClipIfuncs(a, c) ==
    LET lo0 == SliceLo(c, a.shape[3])
        lo1 == SliceLo(c, a.shape[4])
        nx == SliceLen(c, -c, a.shape[3])
        ny == SliceLen(c, -c, a.shape[4])
    IN  Arr(<<a.shape[1], a.shape[2], nx, ny>>,
            Tab(a.shape[1] * a.shape[2] * nx * ny,
                LAMBDA f : At4(a, f \div (a.shape[2] * nx * ny),
                               (f \div (nx * ny)) % a.shape[2],
                               lo0 + ((f \div ny) % nx),
                               lo1 + (f % ny))))

\* M.T . M when M has at least as many rows as columns, M . M.T otherwise:
\* the square matrix whose eigenvalues are the squares of the min(k, n)
\* singular values s of M
Gram(M) ==
    LET k == M.shape[1]
        n == M.shape[2]
    IN  IF k >= n
        THEN Arr(<<n, n>>,
                 Tab(n * n, LAMBDA f :
                     SumTo(k, LAMBDA r : At2(M, r, f \div n) * At2(M, r, f % n))))
        ELSE Arr(<<k, k>>,
                 Tab(k * k, LAMBDA f :
                     SumTo(n, LAMBDA a : At2(M, f \div k, a) * At2(M, f % k, a))))

\* Fraction-free Gauss-Jordan elimination of the m rows of width w of A, from
\* column t on.  It ends with det on the diagonal of the left m columns; a
\* zero pivot means the (positive semi-definite) left block is singular.
RECURSIVE GaussJordan(_, _, _, _, _)
GaussJordan(A, m, w, t, prev) ==
    IF t > m THEN [ok |-> TRUE, A |-> A]
    ELSE LET piv == A[(t - 1) * w + t]
         IN  IF piv = 0 THEN [ok |-> FALSE, A |-> A]
             ELSE GaussJordan(
                      Tab(m * w, LAMBDA f :
                          IF f \div w = t - 1 THEN A[f + 1]
                          ELSE (piv * A[f + 1]
                                - A[(f \div w) * w + t] * A[(t - 1) * w + (f % w) + 1])
                               \div prev),
                      m, w, t + 1, piv)

\* Gram(M) beside the identity, the rows of width 2 * m that GaussJordan
\* turns into det(G) * <identity, inverse of G>
Augmented(G) ==
    Tab(G.shape[1] * 2 * G.shape[1], LAMBDA f :
        IF f % (2 * G.shape[1]) < G.shape[1]
        THEN At2(G, f \div (2 * G.shape[1]), f % (2 * G.shape[1]))
        ELSE IF (f % (2 * G.shape[1])) - G.shape[1] = f \div (2 * G.shape[1]) THEN 1 ELSE 0)

\* the Moore-Penrose inverse of the k x n matrix M from the eliminated rows
\* gj of its Gram matrix, m = min(k, n): integer numerators over det
PseudoInverse(M, k, n, m, gj) ==
    IF ~gj.ok
    THEN [shape |-> <<n, k>>, num |-> Tab(n * k, LAMBDA f : 0), den |-> 0]
    ELSE [shape |-> <<n, k>>,
          num |-> Tab(n * k, LAMBDA f :
                      IF k >= n
                      THEN SumTo(n, LAMBDA b :
                               gj.A[(f \div k) * 2 * m + m + b + 1] * At2(M, f % k, b))
                      ELSE SumTo(k, LAMBDA q :
                               At2(M, q, f \div k) * gj.A[q * 2 * m + m + (f % k) + 1])),
          den |-> IF m = 0 THEN 1 ELSE gj.A[1]]

\* U, s, Vh = svd(M, full_matrices=False); Minv = Vh.T . diag(1 / s) . U.T
\* With every singular value non-zero this is the Moore-Penrose inverse
\* (M.T M)^-1 M.T (k >= n) or M.T (M M.T)^-1 (k < n), here with integer
\* numerators num over the common denominator den = det(Gram(M)).  A zero
\* singular value (M of rank below min(k, n)) makes 1 / s infinite and every
\* entry of the product inf or nan: den = 0.  An empty M has no singular
\* value and an empty Minv: den = 1.
Minv(M) ==
    PseudoInverse(M, M.shape[1], M.shape[2], Min(M.shape[1], M.shape[2]),
                  GaussJordan(Augmented(Gram(M)), Min(M.shape[1], M.shape[2]),
                              2 * Min(M.shape[1], M.shape[2]), 1, 1))

\* what a call leaves: the exception raised (type "none": it returned), and
\* the locals and returned values computed up to there
Outcome(type, line, M_2d_all, M, d, cs, adj_2d) ==
    [type |-> type, line |-> line, M_2d_all |-> M_2d_all, M |-> M, d |-> d,
     coeffs |-> cs, adj_2d |-> adj_2d]

NoArr == Arr(<<>>, <<>>)
NoDArr == DArr(<<>>, <<>>, 1)

\* Minv . d: the numerators of the coefficients over pinv.den * d.den
CoeffNums(pinv, d) ==
    Tab(pinv.shape[1], LAMBDA a :
        SumTo(pinv.shape[2], LAMBDA r : pinv.num[a * pinv.shape[2] + r + 1] * d.data[r + 1]))

\* M_2d_all . coeffs
Dot(M_2d_all, cnum, den) ==
    Tab(M_2d_all.shape[1], LAMBDA x :
        Rat(SumTo(M_2d_all.shape[2], LAMBDA a : At2(M_2d_all, x, a) * cnum[a + 1]), den))

\* d_2d.flatten()
Flatten(a) == DArr(<<Len(a.data)>>, a.data, a.den)

\* calc_adj, line by line; each With binds one local of the source.  The
\* outcome is the exception raised and its line, or the returned values.
calc_adj(ifuncs0, displ0, step, c) ==
    With(IF Truthy(c) THEN ClipDispl(displ0, c[1]) ELSE displ0, LAMBDA displ1 :
    With(IF Truthy(c) THEN ClipIfuncs(ifuncs0, c[1]) ELSE ifuncs0, LAMBDA ifuncs1 :
    IF ReshapeShape(Size(ifuncs1), <<-1, ifuncs1.shape[3], ifuncs1.shape[4]>>) = <<>>
    THEN Outcome("ValueError", 27, NoArr, NoArr, NoDArr, <<>>, NoArr)
    ELSE
    With(Reshape(ifuncs1, <<-1, ifuncs1.shape[3], ifuncs1.shape[4]>>), LAMBDA M_3d_all :
    With(Transpose(Reshape(M_3d_all, <<M_3d_all.shape[1], -1>>)), LAMBDA M_2d_all :
    With(Mgrid(ifuncs1.shape[3], ifuncs1.shape[4], step), LAMBDA g :
    With(Take3(M_3d_all, g.i_ss, g.j_ss), LAMBDA M_3d :
    With(Transpose(Reshape(M_3d, <<M_3d.shape[1], -1>>)), LAMBDA M :
    IF Take2Raises(displ1, g.i_ss, g.j_ss)
    THEN Outcome("IndexError", 41, M_2d_all, M, NoDArr, <<>>, NoArr)
    ELSE
    With(Flatten(Take2(displ1, g.i_ss, g.j_ss)), LAMBDA d :
    With(Minv(M), LAMBDA pinv :
    With(CoeffNums(pinv, d), LAMBDA cnum :
    With(Tab(Len(cnum), LAMBDA a : Rat(cnum[a + 1], pinv.den * d.den)), LAMBDA cs :
    With(Dot(M_2d_all, cnum, pinv.den * d.den), LAMBDA adj1 :
    IF ReshapeShape(Len(adj1), displ1.shape) = <<>>
    THEN Outcome("ValueError", 55, M_2d_all, M, d, cs, NoArr)
    ELSE Outcome("none", 0, M_2d_all, M, d, cs, Arr(displ1.shape, adj1))))))))))))))

\* mutant: the clipping is done in place, on the caller's arrays
CallersArraysClipped(ifuncs0, displ0, c) ==
    IF Truthy(c) THEN <<ClipIfuncs(ifuncs0, c[1]), ClipDispl(displ0, c[1])>>
    ELSE <<ifuncs0, displ0>>

\* Lines 22-23 bind the sliced views to calc_adj's local names ifuncs and
\* displ; nothing in calc_adj writes to an array, so the arrays the caller
\* passed are, after the call, what they were.
CallersArrays(ifuncs0, displ0, c) == <<ifuncs0, displ0>>

----------------------------------------------------------------------------
(* Inputs *)

NSeeds == 2
MaxStride == 3
MaxClip == 3
MaxCalls == 2

\* the grid cell holding actuator a's unit impulse
ImpulseCell(a, cells) == (5 * a + 1) % cells

ZeroBank(shape) == Arr(shape, Tab(Prod(shape), LAMBDA f : 0))

ImpulseBank(shape) ==
    LET cells == shape[3] * shape[4]
    IN  Arr(shape, Tab(Prod(shape), LAMBDA f :
                       IF f % cells = ImpulseCell(f \div cells, cells) THEN 1 ELSE 0))

GenBank(shape, seed) ==
    Arr(shape, Tab(Prod(shape), LAMBDA f :
                   ((f * f + seed * f + (f \div 3) + 3 * seed) % 3) - 1))

GenDispl(shape, seed) ==
    DArr(shape, Tab(Prod(shape), LAMBDA f : ((f * f + seed * f + (f \div 4) + seed) % 5) - 2), 1)

\* the displacement sum_a (c[a] / den) * ifuncs[a]
Combo(bank, c, den) ==
    LET cells == bank.shape[3] * bank.shape[4]
        n == bank.shape[1] * bank.shape[2]
    IN  DArr(<<bank.shape[3], bank.shape[4]>>,
             Tab(cells, LAMBDA f :
                 SumTo(n, LAMBDA a : c[a + 1] * bank.data[a * cells + f + 1])),
             den)

CoefVec(n, seed) == Tab(n, LAMBDA a : ((seed * (a + 1) + a * a) % 5) - 2)

\* the scenario's coefficients 2.0 for actuator 0 and -1.5 for actuator 5, in halves
ScenarioCoefs == Tab(16, LAMBDA a : IF a = 0 THEN 4 ELSE IF a = 5 THEN -3 ELSE 0)

Input(b, dm, step, c, kn) ==
    [ifuncs |-> b, displ |-> dm, n_ss |-> step, clip |-> c, known |-> kn]

\* displacement shapes that differ from the bank's grid (X, Y)
Mismatched(X, Y) ==
    {<<X, Y + 1>>, <<1, X * Y>>, <<Y, X>>, <<X \div 2, 2 * Y>>} \ {<<X, Y>>}

SmallShapes == {<<1, 2, 5, 4>>, <<2, 2, 3, 3>>}
ScenarioShape == <<4, 4, 8, 8>>

Banks(shape) ==
    {ZeroBank(shape), ImpulseBank(shape)} \cup {GenBank(shape, sd) : sd \in 1..NSeeds}

\* no known coefficients
Unknown == [c |-> <<>>, den |-> 1]

\* <<displacement, the coefficients c / den it was built from or Unknown>>
Displs(b) ==
    LET n == b.shape[1] * b.shape[2]
        grid == <<b.shape[3], b.shape[4]>>
    IN  {<<Combo(b, CoefVec(n, sd), 1), [c |-> CoefVec(n, sd), den |-> 1]>> :
            sd \in 1..NSeeds}
        \cup {<<GenDispl(grid, 1), Unknown>>}
        \cup {<<GenDispl(sh, 1), Unknown>> : sh \in Mismatched(grid[1], grid[2])}

Clips == {None} \cup {<<c>> : c \in 0..MaxClip}

InputsOf(b) ==
    {Input(b, dk[1], step, c, dk[2]) :
        dk \in Displs(b),
        step \in (1..MaxStride) \cup {Max(b.shape[3], b.shape[4])},
        c \in Clips}

SmallInputs == UNION {InputsOf(b) : b \in UNION {Banks(sh) : sh \in SmallShapes}}

\* the (4, 4, 8, 8) bank of unit impulses with displ = 2.0 * actuator 0
\* - 1.5 * actuator 5, and the mismatched 8 x 9 and 4 x 16 displacements
ScenarioInputs ==
    LET b == ImpulseBank(ScenarioShape)
    IN  {Input(b, dk[1], step, c, dk[2]) :
            dk \in {<<Combo(b, ScenarioCoefs, 2), [c |-> ScenarioCoefs, den |-> 2]>>,
                    <<GenDispl(<<8, 9>>, 1), Unknown>>,
                    <<GenDispl(<<4, 16>>, 1), Unknown>>},
            step \in {1, 8},
            c \in {None, <<0>>, <<1>>, <<5>>}}

Inputs == SmallInputs \cup ScenarioInputs

----------------------------------------------------------------------------
(* Calls of calc_adj from a caller that keeps its arguments *)

Names == {"ifuncs", "displ", "clip", "n_ss", "coeffs", "adj", "M_2d"}

NoExc == [type |-> "none", line |-> 0]

Init ==
    /\ \E in \in Inputs :
          /\ ifuncs = in.ifuncs
          /\ displ = in.displ
          /\ n_ss = in.n_ss
          /\ clip = in.clip
          /\ known = in.known
    /\ coeffs = <<>>
    /\ adj = NoArr
    /\ M_2d = NoArr
    /\ exc = NoExc
    /\ locals = [M |-> NoArr, d |-> NoDArr]
    /\ calls = 0
    /\ defined = {"ifuncs", "displ", "clip", "n_ss"}
    /\ loads = [ifuncs |-> 0, displ |-> 0]
    /\ file = NoDArr

\* coeffs, adj, M_2d = calc_adj(ifuncs, displ, n_ss, clip)
Call ==
    /\ calls < MaxCalls
    /\ \E r \in {calc_adj(ifuncs, displ, n_ss, clip)},
          after \in {CallersArrays(ifuncs, displ, clip)} :
           /\ exc' = [type |-> r.type, line |-> r.line]
           /\ locals' = [M |-> r.M, d |-> r.d]
           /\ IF r.type = "none"
              THEN /\ coeffs' = r.coeffs
                   /\ adj' = r.adj_2d
                   /\ M_2d' = r.M_2d_all
                   /\ defined' = defined \cup {"coeffs", "adj", "M_2d"}
              ELSE UNCHANGED <<coeffs, adj, M_2d, defined>>
           /\ ifuncs' = after[1]
           /\ displ' = after[2]
    /\ calls' = calls + 1
    /\ UNCHANGED <<n_ss, clip, known, loads, file>>

Next == Call

Spec == Init /\ [][Next]_vars

----------------------------------------------------------------------------
(* Claims about calc_adj *)

Called == calls > 0
Returned == calls > 0 /\ exc.type = "none"

R == ifuncs.shape[1]
C == ifuncs.shape[2]
X == ifuncs.shape[3]
Y == ifuncs.shape[4]

\* the number of cells clipped from each edge
ClipOf == IF Truthy(clip) THEN clip[1] ELSE 0

ShapesMatch == displ.shape = <<X, Y>>
ValidClip == clip = None \/ (2 * clip[1] < X /\ 2 * clip[1] < Y)
ValidInput == ShapesMatch /\ ValidClip /\ n_ss >= 1

Lcm(a, b) == (a * b) \div GCD(a, b)

RECURSIVE LcmDen(_, _)
LcmDen(cs, n) == IF n = 0 THEN 1 ELSE Lcm(cs[n][2], LcmDen(cs, n - 1))

\* sum_a W(a) * cs[a] for rationals cs and integer weights W(0), W(1), ...
LinComb(cs, W(_)) ==
    IF \E a \in DOMAIN cs : cs[a] = NonFinite THEN NonFinite
    ELSE With(LcmDen(cs, Len(cs)), LAMBDA L :
             Rat(SumTo(Len(cs), LAMBDA a : W(a) * cs[a + 1][1] * (L \div cs[a + 1][2])), L))

\* C1 as stated: whenever calc_adj returns (here: on valid inputs), with a
\* non-zero clip too, the adjustment map has the shape (X, Y) of the
\* displacement map that was passed in.
C1_AdjHasPassedShape == Returned /\ ValidInput => adj.shape = displ.shape

\* C1 amended: whenever calc_adj returns, the adjustment map has the shape of
\* the displacement map after clipping, (DX - 2 * clip, DY - 2 * clip) with
\* clip taken as 0 when None, and each of its cells is the coefficients
\* applied to the clipped bank at that cell.
C1_AdjHasClippedShape ==
    Returned =>
        /\ adj.shape = <<displ.shape[1] - 2 * ClipOf, displ.shape[2] - 2 * ClipOf>>
        /\ \A f \in 0..(Len(adj.data) - 1) :
              adj.data[f + 1] =
                  LinComb(coeffs, LAMBDA a :
                      At4(ifuncs, a \div C, a % C,
                          ClipOf + (f \div (Y - 2 * ClipOf)),
                          ClipOf + (f % (Y - 2 * ClipOf))))

C1_Witness ==
    /\ Returned /\ ClipOf >= 1 /\ ShapesMatch
    /\ adj.shape = <<X - 2, Y - 2>>
    /\ \E f \in DOMAIN adj.data : adj.data[f] \notin {NonFinite, <<0, 1>>}

\* the sampled system matrix has full column rank
FullColumnRank(M) == M.shape[1] >= M.shape[2] /\ Minv(M).den # 0

\* the rationals c[a] / den
AsRats(c, den) == Tab(Len(c), LAMBDA a : Rat(c[a + 1], den))

\* displ on the reconstruction grid (the clipped grid), as rationals
ClippedDisplRats ==
    Arr(<<X - 2 * ClipOf, Y - 2 * ClipOf>>,
        Tab((X - 2 * ClipOf) * (Y - 2 * ClipOf), LAMBDA f :
            Rat(At2(displ, ClipOf + (f \div (Y - 2 * ClipOf)),
                    ClipOf + (f % (Y - 2 * ClipOf))), displ.den)))

IsScenario ==
    /\ ifuncs = ImpulseBank(ScenarioShape)
    /\ displ = Combo(ifuncs, ScenarioCoefs, 2)
    /\ n_ss = 1
    /\ ~Truthy(clip)

\* C2: exact-fit recovery.  If displ is the exact combination
\* sum_a c[a] * ifuncs[a] for known coefficients c and the sampled system
\* matrix has full column rank, the call returns c as coefficients and the
\* displacement on the reconstruction grid as adjustment; for the (4, 4, 8, 8)
\* bank of unit impulses with displ = 2.0 * actuator 0 - 1.5 * actuator 5,
\* stride 1 and clip 0 (or None) it returns coeffs[0] = 2, coeffs[5] = -3/2
\* and 0 for every other coefficient.
C2_ExactFit ==
    /\ (/\ Called
        /\ known.c # <<>>
        /\ ValidInput
        /\ displ = Combo(ifuncs, known.c, known.den)
        /\ FullColumnRank(locals.M))
       => /\ exc.type = "none"
          /\ coeffs = AsRats(known.c, known.den)
          /\ adj = ClippedDisplRats
    /\ (Called /\ IsScenario)
       => /\ exc.type = "none"
          /\ coeffs = [a \in 1..16 |->
                         IF a = 1 THEN <<2, 1>> ELSE IF a = 6 THEN <<-3, 2>> ELSE <<0, 1>>]
          /\ adj = ClippedDisplRats

C2_Witness ==
    /\ Called /\ IsScenario /\ clip = <<0>>
    /\ coeffs[1] = <<2, 1>> /\ coeffs[6] = <<-3, 2>>

\* C3: shape invariant.  On valid inputs the call returns a coefficient
\* vector of length R * C, a full-resolution matrix of shape (G, R * C) and an
\* adjustment map of G cells in the shape of the reconstruction grid, which
\* is the clipped grid (X - 2 * clip, Y - 2 * clip) of G cells.
C3_Shapes ==
    (Called /\ ValidInput) =>
        LET gx == X - 2 * ClipOf
            gy == Y - 2 * ClipOf
        IN  /\ exc.type = "none"
            /\ Len(coeffs) = R * C
            /\ M_2d.shape = <<gx * gy, R * C>>
            /\ Len(M_2d.data) = gx * gy * R * C
            /\ adj.shape = <<gx, gy>>
            /\ Len(adj.data) = gx * gy

C3_Witness ==
    /\ Called /\ ValidInput /\ ClipOf = 1 /\ R * C = 4
    /\ M_2d.shape = <<1, 4>> /\ Len(coeffs) = 4

\* bank[:, :, c:X-c, c:Y-c] and displ[c:X-c, c:Y-c], element by element
TrimmedBank(b, c) ==
    Arr(<<b.shape[1], b.shape[2], b.shape[3] - 2 * c, b.shape[4] - 2 * c>>,
        [f \in 1..(b.shape[1] * b.shape[2] * (b.shape[3] - 2 * c) * (b.shape[4] - 2 * c)) |->
            LET g == f - 1
                ny == b.shape[4] - 2 * c
                nx == b.shape[3] - 2 * c
            IN  At4(b, g \div (b.shape[2] * nx * ny), (g \div (nx * ny)) % b.shape[2],
                    c + ((g \div ny) % nx), c + (g % ny))] \o <<>>)

TrimmedDispl(a, c) ==
    DArr(<<a.shape[1] - 2 * c, a.shape[2] - 2 * c>>,
         [f \in 1..((a.shape[1] - 2 * c) * (a.shape[2] - 2 * c)) |->
            At2(a, c + ((f - 1) \div (a.shape[2] - 2 * c)),
                c + ((f - 1) % (a.shape[2] - 2 * c)))] \o <<>>,
         a.den)

\* what a caller sees of an outcome
Seen(r) == <<r.type, r.line, r.coeffs, r.adj_2d, r.M_2d_all>>

\* C4: clip equivalence.  With a clip c >= 1 that leaves a non-empty grid, the
\* call gives what calc_adj gives with clip 0, and with clip None, on the
\* pre-trimmed bank[:, :, c:X-c, c:Y-c] and displ[c:X-c, c:Y-c].
C4_ClipEquivalence ==
    (Called /\ ValidInput /\ ClipOf >= 1) =>
        LET tb == TrimmedBank(ifuncs, ClipOf)
            td == TrimmedDispl(displ, ClipOf)
            here == <<exc.type, exc.line, coeffs, adj, M_2d>>
        IN  /\ exc.type = "none"
            /\ here = Seen(calc_adj(tb, td, n_ss, <<0>>))
            /\ here = Seen(calc_adj(tb, td, n_ss, None))

C4_Witness ==
    /\ Called /\ ValidInput /\ ClipOf = 1 /\ exc.type = "none"
    /\ \E a \in DOMAIN coeffs : coeffs[a] \notin {NonFinite, <<0, 1>>}

\* C5 as stated: whenever the displacement map's shape differs from the
\* bank's grid shape (X, Y), the call raises and returns nothing.
C5_MismatchRaises == (Called /\ ~ShapesMatch) => exc.type # "none"

\* C6: a clip with 2 * clip >= X or 2 * clip >= Y makes the call raise
\* (numpy's ValueError from the reshape of the emptied bank at line 27)
\* before the sampling and the fit; nothing is returned and no system matrix
\* is built.
C6_InvalidClipRaises ==
    (Called /\ clip # None /\ (2 * ClipOf >= X \/ 2 * ClipOf >= Y)) =>
        /\ exc = [type |-> "ValueError", line |-> 27]
        /\ locals.M = NoArr
        /\ coeffs = <<>> /\ adj = NoArr /\ M_2d = NoArr
        /\ "coeffs" \notin defined

C6_Witness ==
    /\ Called /\ clip = <<5>> /\ <<X, Y>> = <<8, 8>>
    /\ exc = [type |-> "ValueError", line |-> 27]

AllZero(b) == \A f \in DOMAIN b.data : b.data[f] = 0

\* C7 as stated: with an all-zero bank the call fails with an error and
\* returns no coefficients or adjustment holding inf or nan.
C7_ZeroBankRaises ==
    (Called /\ ValidInput /\ AllZero(ifuncs)) =>
        /\ exc.type # "none"
        /\ \A a \in DOMAIN coeffs : coeffs[a] # NonFinite

C9_IndexCorrespondence ==
    (Called /\ ValidInput) =>
        LET c == ClipOf
            gx == X - 2 * c
            gy == Y - 2 * c
            ni == CeilDiv(gx, n_ss)
            nj == CeilDiv(gy, n_ss)
            M == locals.M
            d == locals.d
        IN  /\ M.shape = <<ni * nj, R * C>>
            /\ d.shape = <<ni * nj>>
            /\ Len(coeffs) = R * C
            /\ \A r \in 0..(ni * nj - 1) :
                  LET i == (r \div nj) * n_ss
                      j == (r % nj) * n_ss
                  IN  /\ i < gx /\ j < gy
                      /\ d.data[r + 1] = At2(displ, c + i, c + j)
                      /\ \A p \in 0..(R - 1), q \in 0..(C - 1) :
                            At2(M, r, p * C + q) = At4(ifuncs, p, q, c + i, c + j)
            /\ \A x \in 0..(gx - 1), y \in 0..(gy - 1), p \in 0..(R - 1), q \in 0..(C - 1) :
                  At2(M_2d, x * gy + y, p * C + q) = At4(ifuncs, p, q, c + x, c + y)

C9_Witness ==
    /\ Called /\ ValidInput /\ ClipOf = 1 /\ n_ss = 2 /\ <<R, C, X, Y>> = <<1, 2, 5, 4>>
    /\ locals.M.shape = <<2, 2>>
    /\ \E f \in DOMAIN locals.M.data : locals.M.data[f] # 0
    /\ \E f \in DOMAIN locals.d.data : locals.d.data[f] # 0

----------------------------------------------------------------------------
(* main(): the interactive driver and its module globals *)

RAD2ARCSEC == 206000
DefaultClip == 20
DefaultNss == 5
MaxMain == 2

\* Arrays stored in the data file, in radians: the values data[i] / den.  The
\* data files are not part of the repository.  FileIf10 holds a 10 x 10
\* quadrant of actuators on a 5 x 4 grid, four of them live; FileBad holds a
\* 2 x 2 quadrant, which does not fit the 10 x 10 quadrant of the bank.
FileIf10 ==
    DArr(<<10, 10, 5, 4>>,
         Tab(10 * 10 * 5 * 4, LAMBDA f :
             IF (f \div 20) % 31 = 0
             THEN (((f % 20) * (f % 20) + ((f % 20) \div 4) * (f \div 20)
                    + ((f % 20) \div 3) + (f \div 20) + 1) % 3) - 1
             ELSE 0),
         RAD2ARCSEC)

FileBad == DArr(<<2, 2, 2, 3>>, Tab(2 * 2 * 2 * 3, LAMBDA f : (f % 3) - 1), RAD2ARCSEC)

Files == {FileIf10, FileBad}

\* index i of an axis of length 10 into the axis of length n it is broadcast
\* from (n = 1 or n = 10)
Bc(i, n) == IF n = 1 THEN 0 ELSE i

\* if10[::-1 or :, ::-1 or :, ::-1 or :, ::-1 or :], broadcast to
\* (10, 10, n_ax, n_az), at [p, q, x, y]
Mirror(a, rp, rq, rx, ry, p, q, x, y) ==
    At4(a, IF rp THEN a.shape[1] - 1 - Bc(p, a.shape[1]) ELSE Bc(p, a.shape[1]),
           IF rq THEN a.shape[2] - 1 - Bc(q, a.shape[2]) ELSE Bc(q, a.shape[2]),
           IF rx THEN a.shape[3] - 1 - x ELSE x,
           IF ry THEN a.shape[4] - 1 - y ELSE y)

\* ifuncs[0:10, 0:10] = if10 raises ValueError (line 110) unless if10's shape
\* (a, b, n_ax, n_az) broadcasts to (10, 10, n_ax, n_az)
load_ifuncs_raises(stored) ==
    stored.shape[1] \notin {1, 10} \/ stored.shape[2] \notin {1, 10}

\* load_ifuncs: if10 = np.load(filename) * RAD2ARCSEC, then the 20 x 20 bank
\* of the quadrant and its three mirror images.
load_ifuncs(stored) ==
    With(Arr(stored.shape,
             Tab(Len(stored.data), LAMBDA f :
                 (stored.data[f + 1] * RAD2ARCSEC) \div stored.den)),
         LAMBDA if10 :
    With(if10.shape[3], LAMBDA n_ax :
    With(if10.shape[4], LAMBDA n_az :
    Arr(<<20, 20, n_ax, n_az>>,
        Tab(20 * 20 * n_ax * n_az, LAMBDA f :
            With(f \div (20 * n_ax * n_az), LAMBDA p :
            With((f \div (n_ax * n_az)) % 20, LAMBDA q :
            With((f \div n_az) % n_ax, LAMBDA x :
            With(f % n_az, LAMBDA y :
                IF p < 10 /\ q < 10
                THEN Mirror(if10, FALSE, FALSE, FALSE, FALSE, p, q, x, y)
                ELSE IF p >= 10 /\ q < 10
                THEN Mirror(if10, TRUE, FALSE, TRUE, FALSE, p - 10, q, x, y)
                ELSE IF p < 10
                THEN Mirror(if10, FALSE, TRUE, FALSE, TRUE, p, q - 10, x, y)
                ELSE Mirror(if10, TRUE, TRUE, TRUE, TRUE, p - 10, q - 10, x, y))))))))))

\* load_displ_legendre computes in floating point; the model computes the
\* same expressions in fixed point, a real number v being the integer
\* nearest to v * Scale.
Scale == 10000

\* the integer nearest to a / b, for b > 0
RoundDiv(a, b) == (2 * a + b) \div (2 * b)

RECURSIVE SqrtBits(_, _, _)
\* the largest r + k * step (k >= 0) whose square is at most n, refined down
\* to step 1
SqrtBits(n, r, step) ==
    IF step = 0 THEN r
    ELSE IF (r + step) * (r + step) <= n THEN SqrtBits(n, r + step, step)
    ELSE SqrtBits(n, r, step \div 2)

\* floor(sqrt(n)) for 0 <= n < 2^30
Sqrt(n) == SqrtBits(n, 0, 16384)

\* np.linspace(-1, 1, n)[i]
Linspace(n, i) ==
    IF n = 1 THEN -Scale ELSE RoundDiv(2 * i * Scale - (n - 1) * Scale, n - 1)

RECURSIVE LegendreFrom(_, _, _, _, _)
\* P_n(x) from pk = P_k(x) and pkm1 = P_(k-1)(x):
\* (k + 1) P_(k+1)(x) = (2k + 1) x P_k(x) - k P_(k-1)(x)
LegendreFrom(k, n, x, pk, pkm1) ==
    IF k = n THEN pk
    ELSE LegendreFrom(k + 1, n, x,
                      RoundDiv((2 * k + 1) * RoundDiv(x * pk, Scale) - k * pkm1, k + 1),
                      pk)

\* legendre(n)(x)
Legendre(n, x) == IF n = 0 THEN Scale ELSE LegendreFrom(1, n, x, x, Scale)

\* rdispl = (1 - legendre(ord_ax)(y)) * (1 - legendre(ord_az)(x)), flat, of
\* shape (n_ax + 1, n_az)
Rdispl(n_ax, n_az, ord_ax, ord_az) ==
    Tab((n_ax + 1) * n_az, LAMBDA f :
        RoundDiv((Scale - Legendre(ord_ax, Linspace(n_ax + 1, f \div n_az)))
                 * (Scale - Legendre(ord_az, Linspace(n_az, f % n_az))), Scale))

\* np.std(v): the square root of the mean squared deviation from the mean
Std(v) ==
    With(RoundDiv(SumFirst(v, Len(v)), Len(v)), LAMBDA mean :
        Sqrt(Scale * RoundDiv(SumTo(Len(v), LAMBDA f :
                                  RoundDiv((v[f + 1] - mean) * (v[f + 1] - mean), Scale)),
                              Len(v))))

\* load_displ_legendre(ifuncs, ord_ax, ord_az, rms): rdispl[1:] - rdispl[:-1]
\* on ifuncs' grid (n_ax, n_az), scaled to the standard deviation rms when
\* rms is given (rms = 0: None).  The scaled values are in thousandths; on
\* the grids of this model they are within 0.002 of the floating-point
\* values.  A map of standard deviation 0, which the source turns into nan,
\* does not occur on these grids.
load_displ_legendre(bank, ord_ax, ord_az, rms) ==
    With(bank.shape[3], LAMBDA n_ax :
    With(bank.shape[4], LAMBDA n_az :
    With(Rdispl(n_ax, n_az, ord_ax, ord_az), LAMBDA rdispl :
    With(Tab(n_ax * n_az, LAMBDA f : rdispl[f + n_az + 1] - rdispl[f + 1]), LAMBDA v :
        IF rms = 0 THEN DArr(<<n_ax, n_az>>, v, Scale)
        ELSE With(Std(v), LAMBDA std :
                 DArr(<<n_ax, n_az>>,
                      Tab(n_ax * n_az, LAMBDA f : RoundDiv(v[f + 1] * rms * 1000, std)),
                      1000))))))

\* mutant: clip and n_ss receive their defaults whether defined or not
LazyGlobalAlways(name, current, init) ==
    IF name \in defined /\ name \notin {"clip", "n_ss"} THEN current ELSE init

\* if name not in globals(): name = init
LazyGlobal(name, current, init) == IF name \in defined THEN current ELSE init

InitMain ==
    /\ file \in Files
    /\ defined = {}
    /\ ifuncs = NoArr
    /\ displ = NoDArr
    /\ n_ss = 0
    /\ clip = None
    /\ coeffs = <<>>
    /\ adj = NoArr
    /\ M_2d = NoArr
    /\ exc = NoExc
    /\ locals = [M |-> NoArr, d |-> NoDArr]
    /\ calls = 0
    /\ known = Unknown
    /\ loads = [ifuncs |-> 0, displ |-> 0]

\* main(): the lazy initialisation of ifuncs, displ, clip and n_ss, then
\* coeffs, adj, M_2d = calc_adj(ifuncs, displ, n_ss, clip), then make_plots,
\* which reads displ, adj and clip and binds no global.  When load_ifuncs
\* raises, main ends there and binds nothing.  When calc_adj raises, main
\* ends there: the four inputs stay initialised and coeffs, adj and M_2d
\* stay as they were.
Main ==
    /\ calls < MaxMain
    /\ IF "ifuncs" \notin defined /\ load_ifuncs_raises(file)
       THEN /\ exc' = [type |-> "ValueError", line |-> 110]
            /\ UNCHANGED <<ifuncs, displ, clip, n_ss, loads, locals, coeffs, adj, M_2d,
                           defined>>
       ELSE
       \E ifuncs1 \in {LazyGlobal("ifuncs", ifuncs, load_ifuncs(file))} :
       \E displ1 \in {LazyGlobal("displ", displ, load_displ_legendre(ifuncs1, 8, 4, 5))},
          clip1 \in {LazyGlobal("clip", clip, <<DefaultClip>>)},
          n_ss1 \in {LazyGlobal("n_ss", n_ss, DefaultNss)} :
       \E r \in {calc_adj(ifuncs1, displ1, n_ss1, clip1)} :
           /\ ifuncs' = ifuncs1
           /\ displ' = displ1
           /\ clip' = clip1
           /\ n_ss' = n_ss1
           /\ loads' = [ifuncs |-> loads.ifuncs + (IF "ifuncs" \in defined THEN 0 ELSE 1),
                        displ |-> loads.displ + (IF "displ" \in defined THEN 0 ELSE 1)]
           /\ exc' = [type |-> r.type, line |-> r.line]
           /\ locals' = [M |-> r.M, d |-> r.d]
           /\ IF r.type = "none"
              THEN /\ coeffs' = r.coeffs
                   /\ adj' = r.adj_2d
                   /\ M_2d' = r.M_2d_all
                   /\ defined' = defined \cup Names
              ELSE /\ UNCHANGED <<coeffs, adj, M_2d>>
                   /\ defined' = defined \cup {"ifuncs", "displ", "clip", "n_ss"}
    /\ calls' = calls + 1
    /\ UNCHANGED <<known, file>>

\* what the user types between invocations of main()
UserClips == {None, <<1>>, <<25>>}
UserStrides == {3}
UserBanks == {GenBank(<<1, 2, 5, 4>>, 2)}
UserDispls == {GenDispl(<<5, 4>>, 2)}

UserSetClip ==
    /\ calls < MaxMain
    /\ \E c \in UserClips : clip' = c
    /\ defined' = defined \cup {"clip"}
    /\ UNCHANGED <<ifuncs, displ, n_ss, coeffs, adj, M_2d, exc, locals, calls, known, loads,
                   file>>

UserSetNss ==
    /\ calls < MaxMain
    /\ \E st \in UserStrides : n_ss' = st
    /\ defined' = defined \cup {"n_ss"}
    /\ UNCHANGED <<ifuncs, displ, clip, coeffs, adj, M_2d, exc, locals, calls, known, loads,
                   file>>

UserSetIfuncs ==
    /\ calls < MaxMain
    /\ \E b \in UserBanks : ifuncs' = b
    /\ defined' = defined \cup {"ifuncs"}
    /\ UNCHANGED <<displ, clip, n_ss, coeffs, adj, M_2d, exc, locals, calls, known, loads,
                   file>>

UserSetDispl ==
    /\ calls < MaxMain
    /\ \E dm \in UserDispls : displ' = dm
    /\ defined' = defined \cup {"displ"}
    /\ UNCHANGED <<ifuncs, clip, n_ss, coeffs, adj, M_2d, exc, locals, calls, known, loads,
                   file>>

NextMain == Main \/ UserSetClip \/ UserSetNss \/ UserSetIfuncs \/ UserSetDispl

SpecMain == InitMain /\ [][NextMain]_vars

----------------------------------------------------------------------------
(* Claim about main() *)

\* a step of main(), as opposed to an assignment typed by the user
MainStep == calls' = calls + 1

\* main() has to load the bank, and the stored array does not fit
LoadFails == "ifuncs" \notin defined /\ load_ifuncs_raises(file)

\* the inputs of main() are initialised lazily: a defined global is kept,
\* an undefined one receives its loaded value or its default
LazyInputs ==
    /\ "ifuncs" \in defined => ifuncs' = ifuncs /\ loads'.ifuncs = loads.ifuncs
    /\ "displ" \in defined => displ' = displ /\ loads'.displ = loads.displ
    /\ loads'.ifuncs <= 1 /\ loads'.displ <= 1
    /\ clip' = IF "clip" \in defined THEN clip ELSE <<DefaultClip>>
    /\ n_ss' = IF "n_ss" \in defined THEN n_ss ELSE DefaultNss
    /\ {"ifuncs", "displ", "clip", "n_ss"} \subseteq defined'

====
